---- MODULE Spec2Model ----
(***************************************************************************)
(* Job lifecycle of tamecalm/job-processor: the coordinator (jobService)   *)
(* writing Job documents to the Record Store (MongoDB, model Job) and      *)
(* entries to the Work Queue (BullMQ queue 'jobs'), and the worker         *)
(* (emailWorker + emailProcessor) writing outcomes back.                   *)
(***************************************************************************)
EXTENDS Integers, FiniteSets, Sequences, TLC

\* ---------------------------------------------------------------- bounds
MaxJobs    == 1     \* Job documents ever created (ObjectIds 1..MaxJobs)
NumCallers == 2     \* concurrent HTTP requests inside jobService
NumWorkers == 1     \* concurrent processor invocations of the worker
MaxHandles == 8     \* Queue and QueueEvents objects ever constructed
MaxClock   == 1     \* last value of the wall clock read by new Date()
MaxStalls  == 1     \* stalled redeliveries of one entry

\* ------------------------------------------------------ program constants
Attempts   == 3     \* attempts: 3 of the job options
AddTries   == 3     \* attempt <= 3 of the enqueue loop

MaxIds  == MaxJobs + 1     \* ObjectIds at hand; a run uses the first idLimit
Ids     == 1..MaxIds
Callers == 1..NumCallers
Workers == 1..NumWorkers

\* ------------------------------------------------------------ the inputs
Names    == {"sendEmail", "resizeImage"}
Payloads == {[recipient |-> "a@b.com", subject |-> "Hi"],
             [recipient |-> "c@d.com", subject |-> "Yo"]}

\* payloads that bring a field named id of their own
IdPayloads == {[recipient |-> "a@b.com", subject |-> "Hi", id |-> MaxIds]}

\* ------------------------------------------------------ values of fields
NullDate   == -1
NullResult == [kind |-> "null"]
NoJob      == [none |-> TRUE]
NoEntry    == [none |-> TRUE]
NoError    == "none"

ErrQueueNotInit == "Job queue not initialized"
ErrNotFound     == "Job not found"
ErrNotFailed    == "Job is not in failed state"
ErrQueue        == "Queue error"
ErrTimedOut     == "Queue add timed out"
ErrFailedToQueue== "Failed to queue job: Queue error"
ErrDb           == "Database error"
ErrProgress     == "Redis error"
ErrUnknownType  == "Unknown job type"

VARIABLES
  store,        \* Record Store: id -> Job document or NoJob
  queue,        \* Work Queue 'jobs': jobId -> entry or NoEntry
  call,         \* caller -> the jobService call it is running
  worker,       \* worker slot -> the processor run it is in
  pendingAdds,  \* queue.add requests abandoned by a timed-out race
  now,          \* the wall clock
  nextId,       \* the next ObjectId
  idLimit,      \* the last ObjectId this run hands out
  reply,        \* what the step just taken returned to its caller, if it returned
  redisClient,  \* config/redis.js: let redisClient
  isConnecting, \* config/redis.js: let isConnecting
  redisCall,    \* caller -> the connectRedis() call it is running
  dbCall,       \* caller -> the connectDB() call it is running
  jobQueue,     \* jobs/queue.js: let jobQueue
  queueEvents,  \* jobs/queue.js: let queueEvents
  handles,      \* the Queue and QueueEvents objects built, and the closeQueue() call
  emailWorker,  \* jobs/workers/emailWorker.js: let emailWorker
  server        \* startServer(): its locals and what it has done so far

\* the state of the process around the job lifecycle
proc == <<redisClient, isConnecting, redisCall, dbCall, jobQueue, queueEvents,
          handles, emailWorker, server>>

\* the state of the job lifecycle
lifecycle == <<store, queue, call, worker, pendingAdds, now, nextId, idLimit, reply>>

vars == <<store, queue, call, worker, pendingAdds, now, nextId, idLimit, reply,
          redisClient, isConnecting, redisCall, dbCall, jobQueue, queueEvents,
          handles, emailWorker, server>>

\* ------------------------------------------------------------- documents
NewJob(id, name, data, t) ==
  [id |-> id, name |-> name, data |-> data, status |-> "active",
   result |-> NullResult, createdAt |-> t,
   completedAt |-> NullDate, failedAt |-> NullDate]

SuccessResult(data) ==
  [kind |-> "sent", recipient |-> data.recipient, subject |-> data.subject]

ErrorResult(msg) == [kind |-> "error", message |-> msg]

\* Job.findByIdAndUpdate(id, fields): sets the given fields of the document
\* with that id; a missing document is left missing (no upsert).
\* a success write that leaves completedAt unset
UpdateCompletedNoTimestamp(st, id, result, t) ==
  IF st[id] = NoJob THEN st
  ELSE [st EXCEPT ![id].status = "completed", ![id].result = result]

UpdateCompleted(st, id, result, t) ==
  IF st[id] = NoJob THEN st
  ELSE [st EXCEPT ![id].status = "completed", ![id].result = result,
                  ![id].completedAt = t]

\* a failure write that creates the document it does not find (upsert)
UpdateFailedUpserts(st, id, msg, t) ==
  IF st[id] = NoJob
  THEN [st EXCEPT ![id] = [NewJob(id, "sendEmail", [recipient |-> "", subject |-> ""], t)
                             EXCEPT !.status = "failed", !.result = ErrorResult(msg),
                                    !.failedAt = t]]
  ELSE [st EXCEPT ![id].status = "failed", ![id].result = ErrorResult(msg),
                  ![id].failedAt = t]

UpdateFailed(st, id, msg, t) ==
  IF st[id] = NoJob THEN st
  ELSE [st EXCEPT ![id].status = "failed", ![id].result = ErrorResult(msg),
                  ![id].failedAt = t]

\* a retry update that forgets to clear failedAt
UpdateRetriedKeepsFailedAt(st, id) ==
  IF st[id] = NoJob THEN st
  ELSE [st EXCEPT ![id].status = "active", ![id].result = NullResult]

UpdateRetried(st, id) ==
  IF st[id] = NoJob THEN st
  ELSE [st EXCEPT ![id].status = "active", ![id].result = NullResult,
                  ![id].failedAt = NullDate]

\* Job.findByIdAndDelete(id)
DeleteDoc(st, id) == [st EXCEPT ![id] = NoJob]

\* --------------------------------------------------------------- entries
\* queue.add(name, {...data, id}, {jobId}): the entry is keyed by jobId; an
\* add whose key is already held by the queue is ignored.
NewEntry(name, data, id) ==
  [name |-> name, data |-> data, dataId |-> id, state |-> "waiting",
   attemptsMade |-> 0, owner |-> 0, stalls |-> 0]

\* an object literal that lets the fields of data override id: { id, ...data }
SpreadKeepsOwn(data, id) ==
  [k \in DOMAIN data \cup {"id"} |->
     IF k \in DOMAIN data THEN data[k] ELSE id]

\* { ...data, id }: the fields of data, and id under the key "id" whatever
\* data held under that key
Spread(data, id) ==
  [k \in DOMAIN data \cup {"id"} |-> IF k = "id" THEN id ELSE data[k]]

\* the entry keeps the job's data and, as dataId, the id field of the payload
\* it was added with (job.data.id in the processor)
AddRequest(name, data, id) ==
  [jobId |-> id, name |-> name, data |-> data, dataId |-> Spread(data, id).id]

QueueAdd(q, req) ==
  IF q[req.jobId] # NoEntry THEN q
  ELSE [q EXCEPT ![req.jobId] = NewEntry(req.name, req.data, req.dataId)]

\* ----------------------------------------------------------------- calls
Idle == [op |-> "none", pc |-> "idle", job |-> NoJob, attempt |-> 0, err |-> NoError]

NoReply == [op |-> "none", id |-> 0, err |-> NoError, ret |-> NoJob]

IdleWorker == [pc |-> "idle", id |-> 0, data |-> NoJob, err |-> NoError]

\* the call of caller c ends: it throws err, or returns ret when err is NoError
Finish(c, op, job, err, ret) ==
  /\ call' = [call EXCEPT ![c] = Idle]
  /\ reply' = [op |-> op, id |-> IF job = NoJob THEN 0 ELSE job.id, err |-> err, ret |-> ret]

Continue(c, pc, err) ==
  /\ call' = [call EXCEPT ![c].pc = pc, ![c].err = err]
  /\ reply' = NoReply

\* ------------------------------------------------- the process at its start
Null == "null"

\* no connectRedis() call: pc where the call stands, retryCount and
\* maxRetries its arguments, attempts the connect() calls it has made, ret
\* what the last call returned
IdleRedisCall == [pc |-> "idle", retryCount |-> 0, maxRetries |-> 0, attempts |-> 0, ret |-> "none"]

\* no connectDB() call, with the same fields
IdleDbCall == [pc |-> "idle", retryCount |-> 0, maxRetries |-> 0, attempts |-> 0, ret |-> "none"]

\* a Queue or QueueEvents object is the number of its construction; null
NoHandle == 0

\* nothing built: built counts the objects constructed, live holds those not
\* closed, closing is where the closeQueue() call stands, ret is what the
\* last createJobQueue() or getJobQueue() returned
NoHandles == [built |-> 0, live |-> {}, closing |-> "idle", ret |-> NoHandle]

\* startServer() not yet called
NotStarted == [pc |-> "init", redis |-> "none", mongo |-> "none", redisConnected |-> FALSE,
               jobQueue |-> NoHandle, worker |-> Null, dashboard |-> FALSE, routes |-> FALSE,
               listening |-> FALSE, exitCode |-> 0]

InitProc ==
  /\ redisClient = Null
  /\ isConnecting = FALSE
  /\ redisCall = [c \in Callers |-> IdleRedisCall]
  /\ dbCall = [c \in Callers |-> IdleDbCall]
  /\ jobQueue = NoHandle
  /\ queueEvents = NoHandle
  /\ handles = NoHandles
  /\ emailWorker = Null
  /\ server = NotStarted

Init ==
  /\ store = [i \in Ids |-> NoJob]
  /\ queue = [i \in Ids |-> NoEntry]
  /\ call = [c \in Callers |-> Idle]
  /\ worker = [w \in Workers |-> IdleWorker]
  /\ pendingAdds = {}
  /\ now = 0
  /\ nextId = 1
  /\ idLimit = MaxJobs
  /\ reply = NoReply
  /\ InitProc

\* the same start, with ObjectIds for every caller
InitCreate ==
  /\ store = [i \in Ids |-> NoJob]
  /\ queue = [i \in Ids |-> NoEntry]
  /\ call = [c \in Callers |-> Idle]
  /\ worker = [w \in Workers |-> IdleWorker]
  /\ pendingAdds = {}
  /\ now = 0
  /\ nextId = 1
  /\ idLimit = MaxIds
  /\ reply = NoReply
  /\ InitProc

\* ------------------------------------------------- jobService.createJob
\* Job.create({name, data, status: 'active'}): the document is written, or
\* the write fails and nothing was created (job stays null, no cleanup).
CreateJobWrite(c, name, data) ==
  /\ call[c].pc = "idle"
  /\ nextId <= idLimit
  /\ \/ /\ store' = [store EXCEPT ![nextId] = NewJob(nextId, name, data, now)]
        /\ nextId' = nextId + 1
        /\ call' = [call EXCEPT ![c] = [Idle EXCEPT !.op = "createJob", !.pc = "add",
                                         !.job = NewJob(nextId, name, data, now)]]
        /\ reply' = NoReply
     \/ /\ Finish(c, "createJob", NoJob, ErrDb, NoJob)
        /\ UNCHANGED <<store, nextId>>
  /\ UNCHANGED <<queue, worker, pendingAdds, now, idLimit>>

\* a Job.create that hands the same ObjectId out again
CreateJobReusesId(c, name, data) ==
  /\ call[c].pc = "idle"
  /\ nextId <= idLimit
  /\ \/ /\ store' = [store EXCEPT ![nextId] = NewJob(nextId, name, data, now)]
        /\ nextId' = IF store[nextId] = NoJob THEN nextId ELSE nextId + 1
        /\ call' = [call EXCEPT ![c] = [Idle EXCEPT !.op = "createJob", !.pc = "add",
                                         !.job = NewJob(nextId, name, data, now)]]
        /\ reply' = NoReply
     \/ /\ Finish(c, "createJob", NoJob, ErrDb, NoJob)
        /\ UNCHANGED <<store, nextId>>
  /\ UNCHANGED <<queue, worker, pendingAdds, now, idLimit, proc>>

CreateJob(c, name, data) ==
  /\ CreateJobWrite(c, name, data)
  /\ UNCHANGED proc

\* createJob from its first line: held tells whether getJobQueue() returns a
\* queue, made whether createJobQueue() does when it is called. Without a
\* queue the throw lands in the outer catch with job still null, which
\* rethrows it.
\* a createJob that writes the document before it looks for the queue
CreateJobWritesFirst(c, name, data, held, made) ==
  IF held \/ made
    THEN CreateJob(c, name, data)
    ELSE /\ call[c].pc = "idle"
         /\ nextId <= idLimit
         /\ store' = [store EXCEPT ![nextId] = NewJob(nextId, name, data, now)]
         /\ nextId' = nextId + 1
         /\ Finish(c, "createJob", NoJob, ErrQueueNotInit, NoJob)
         /\ UNCHANGED <<queue, worker, pendingAdds, now, idLimit, proc>>

CreateJobGetQueue(c, name, data, held, made) ==
  IF held \/ made
    THEN CreateJob(c, name, data)
    ELSE /\ call[c].pc = "idle"
         /\ Finish(c, "createJob", NoJob, ErrQueueNotInit, NoJob)
         /\ UNCHANGED <<store, queue, worker, pendingAdds, now, nextId, idLimit, proc>>

\* await queue.add(name, {...data, id: job._id}, {jobId, attempts: 3, ...}):
\* accepted, then return job; or rejected, into the inner catch.
CreateJobAdd(c) ==
  /\ call[c].op = "createJob" /\ call[c].pc = "add"
  /\ \/ /\ queue' = QueueAdd(queue, AddRequest(call[c].job.name, call[c].job.data, call[c].job.id))
        /\ Finish(c, call[c].op, call[c].job, NoError, call[c].job)
     \/ /\ Continue(c, "cleanup", ErrQueue)
        /\ UNCHANGED queue
  /\ UNCHANGED <<store, worker, pendingAdds, now, nextId, idLimit, proc>>

\* inner catch: await Job.findByIdAndDelete(job._id), then throw
\* 'Failed to queue job: ...'; a failing delete throws its own error. Both
\* land in the outer catch.
CreateJobCleanup(c) ==
  /\ call[c].op = "createJob" /\ call[c].pc = "cleanup"
  /\ \/ /\ store' = DeleteDoc(store, call[c].job.id)
        /\ Continue(c, "cleanup2", ErrFailedToQueue)
     \/ /\ Continue(c, "cleanup2", ErrDb)
        /\ UNCHANGED store
  /\ UNCHANGED <<queue, worker, pendingAdds, now, nextId, idLimit, proc>>

\* outer catch: job is set, so the delete is tried again, its failure is
\* logged and swallowed, and the error is rethrown.
CreateJobCleanup2(c) ==
  /\ call[c].op = "createJob" /\ call[c].pc = "cleanup2"
  /\ \/ store' = DeleteDoc(store, call[c].job.id)
     \/ UNCHANGED store
  /\ Finish(c, call[c].op, call[c].job, call[c].err, NoJob)
  /\ UNCHANGED <<queue, worker, pendingAdds, now, nextId, idLimit, proc>>

\* ------------------------------- jobService.createJob, enqueue under a race
CreateJobV1(c, name, data) ==
  /\ call[c].pc = "idle"
  /\ nextId <= idLimit
  /\ \/ /\ store' = [store EXCEPT ![nextId] = NewJob(nextId, name, data, now)]
        /\ nextId' = nextId + 1
        /\ call' = [call EXCEPT ![c] = [Idle EXCEPT !.op = "createJobV1", !.pc = "race",
                                         !.attempt = 1,
                                         !.job = NewJob(nextId, name, data, now)]]
        /\ reply' = NoReply
     \/ /\ Finish(c, "createJobV1", NoJob, ErrDb, NoJob)
        /\ UNCHANGED <<store, nextId>>
  /\ UNCHANGED <<queue, worker, pendingAdds, now, idLimit, proc>>

\* catch of one attempt: the third failure is rethrown to the outer catch,
\* an earlier one sleeps 2 s and tries again.
\* an enqueue loop that allows one attempt more
AttemptFailedOnceMore(c, err) ==
  IF c.attempt = AddTries + 1
  THEN [c EXCEPT !.pc = "cleanup", !.err = err]
  ELSE [c EXCEPT !.attempt = c.attempt + 1]

AttemptFailed(c, err) ==
  IF c.attempt = AddTries
  THEN [c EXCEPT !.pc = "cleanup", !.err = err]
  ELSE [c EXCEPT !.attempt = c.attempt + 1]

\* Promise.race: queue.add settles first, accepted
CreateJobV1Accepted(c) ==
  /\ call[c].op = "createJobV1" /\ call[c].pc = "race"
  /\ queue' = QueueAdd(queue, AddRequest(call[c].job.name, call[c].job.data, call[c].job.id))
  /\ Finish(c, call[c].op, call[c].job, NoError, call[c].job)
  /\ UNCHANGED <<store, worker, pendingAdds, now, nextId, idLimit, proc>>

\* Promise.race: queue.add settles first, rejected
CreateJobV1Rejected(c) ==
  /\ call[c].op = "createJobV1" /\ call[c].pc = "race"
  /\ call' = [call EXCEPT ![c] = AttemptFailed(@, ErrQueue)]
  /\ reply' = NoReply
  /\ UNCHANGED <<store, queue, worker, pendingAdds, now, nextId, idLimit, proc>>

\* Promise.race: the 60 s timer settles first; queue.add is not cancelled
\* and stays in flight.
CreateJobV1TimedOut(c) ==
  /\ call[c].op = "createJobV1" /\ call[c].pc = "race"
  /\ pendingAdds' = pendingAdds \cup
        {AddRequest(call[c].job.name, call[c].job.data, call[c].job.id)}
  /\ call' = [call EXCEPT ![c] = AttemptFailed(@, ErrTimedOut)]
  /\ reply' = NoReply
  /\ UNCHANGED <<store, queue, worker, now, nextId, idLimit, proc>>

\* outer catch: if (job) await Job.findByIdAndDelete(job._id); throw error.
\* A failing delete throws out of the catch.
CreateJobV1Cleanup(c) ==
  /\ call[c].op = "createJobV1" /\ call[c].pc = "cleanup"
  /\ \/ /\ store' = DeleteDoc(store, call[c].job.id)
        /\ Finish(c, call[c].op, call[c].job, call[c].err, NoJob)
     \/ /\ Finish(c, call[c].op, call[c].job, ErrDb, NoJob)
        /\ UNCHANGED store
  /\ UNCHANGED <<queue, worker, pendingAdds, now, nextId, idLimit, proc>>

\* an abandoned queue.add settles after its race was lost
LateAddAccepted(id) ==
  /\ \E req \in pendingAdds :
       /\ req.jobId = id
       /\ queue' = QueueAdd(queue, req)
       /\ pendingAdds' = pendingAdds \ {req}
  /\ reply' = NoReply
  /\ UNCHANGED <<store, call, worker, now, nextId, idLimit, proc>>

LateAddRejected(id) ==
  /\ \E req \in pendingAdds :
       /\ req.jobId = id
       /\ pendingAdds' = pendingAdds \ {req}
  /\ reply' = NoReply
  /\ UNCHANGED <<store, queue, call, worker, now, nextId, idLimit, proc>>

\* -------------------------------------------------- jobService.retryJob
\* const job = await Job.findById(id); not found and not-failed are thrown
\* before anything is written.
\* a retryJob whose state check only turns completed jobs away
RetryJobChecksCompleted(c, id) ==
  /\ call[c].pc = "idle"
  /\ IF store[id] = NoJob
       THEN Finish(c, "retryJob", NoJob, ErrNotFound, NoJob)
     ELSE IF store[id].status = "completed"
       THEN Finish(c, "retryJob", store[id], ErrNotFailed, NoJob)
     ELSE /\ call' = [call EXCEPT ![c] =
                [Idle EXCEPT !.op = "retryJob", !.pc = "add", !.job = store[id]]]
          /\ reply' = NoReply
  /\ UNCHANGED <<store, queue, worker, pendingAdds, now, nextId, idLimit, proc>>

RetryJob(c, id) ==
  /\ call[c].pc = "idle"
  /\ IF store[id] = NoJob
       THEN Finish(c, "retryJob", NoJob, ErrNotFound, NoJob)
     ELSE IF store[id].status # "failed"
       THEN Finish(c, "retryJob", store[id], ErrNotFailed, NoJob)
     ELSE /\ call' = [call EXCEPT ![c] =
                [Idle EXCEPT !.op = "retryJob", !.pc = "add", !.job = store[id]]]
          /\ reply' = NoReply
  /\ UNCHANGED <<store, queue, worker, pendingAdds, now, nextId, idLimit, proc>>

\* await queue.add(job.name, {...job.data, id: job._id}, {jobId, delay: 0})
RetryJobAdd(c) ==
  /\ call[c].op = "retryJob" /\ call[c].pc = "add"
  /\ \/ /\ queue' = QueueAdd(queue, AddRequest(call[c].job.name, call[c].job.data, call[c].job.id))
        /\ Continue(c, "update", call[c].err)
     \/ /\ Finish(c, call[c].op, call[c].job, ErrQueue, NoJob)
        /\ UNCHANGED queue
  /\ UNCHANGED <<store, worker, pendingAdds, now, nextId, idLimit, proc>>

\* a retryJob that returns the document as updated
RetryResultUpdated(read, updated) == updated

\* the value retryJob returns: the document findById read
RetryResult(read, updated) == read

\* await Job.findByIdAndUpdate(id, {status: 'active', result: null,
\* failedAt: null}); return job
RetryJobUpdate(c) ==
  /\ call[c].op = "retryJob" /\ call[c].pc = "update"
  /\ \/ /\ store' = UpdateRetried(store, call[c].job.id)
        /\ Finish(c, call[c].op, call[c].job, NoError,
                  RetryResult(call[c].job, store'[call[c].job.id]))
     \/ /\ Finish(c, call[c].op, call[c].job, ErrDb, NoJob)
        /\ UNCHANGED store
  /\ UNCHANGED <<queue, worker, pendingAdds, now, nextId, idLimit, proc>>

\* --------------------------------------------------- jobService.getJobs
\* the ids of the documents Job.find() matches: all of them
Present(st) == {i \in Ids : st[i] # NoJob}

\* an ordering with the oldest document first
SortedOldestFirst(st, seq) ==
  \A i, j \in 1..Len(seq) : i < j => st[seq[i]].createdAt <= st[seq[j]].createdAt

\* .sort({ createdAt: -1 }): no document comes before a more recent one;
\* documents of equal createdAt come in whatever order the store yields
Sorted(st, seq) ==
  \A i, j \in 1..Len(seq) : i < j => st[seq[i]].createdAt >= st[seq[j]].createdAt

\* the results Job.find().sort({ createdAt: -1 }) can give
Listings(st) ==
  {[k \in 1..Len(seq) |-> st[seq[k]]] :
     seq \in {q \in [1..Cardinality(Present(st)) -> Present(st)] :
                /\ \A i, j \in 1..Len(q) : i # j => q[i] # q[j]
                /\ Sorted(st, q)}}

\* const jobs = await Job.find().sort({ createdAt: -1 }); return jobs
GetJobs(c) ==
  /\ call[c].pc = "idle"
  /\ \E jobs \in Listings(store) : Finish(c, "getJobs", NoJob, NoError, jobs)
  /\ UNCHANGED <<store, queue, worker, pendingAdds, now, nextId, idLimit, proc>>

\* ------------------------------------------------ jobService.getJobById
\* a getJobById that answers a missing document with null
GetJobByIdReturnsNull(c, id) ==
  /\ call[c].pc = "idle"
  /\ Finish(c, "getJobById", store[id], NoError, store[id])
  /\ UNCHANGED <<store, queue, worker, pendingAdds, now, nextId, idLimit, proc>>

\* const job = await Job.findById(id); if (!job) throw 'Job not found';
\* return job
GetJobById(c, id) ==
  /\ call[c].pc = "idle"
  /\ IF store[id] = NoJob
       THEN Finish(c, "getJobById", NoJob, ErrNotFound, NoJob)
       ELSE Finish(c, "getJobById", store[id], NoError, store[id])
  /\ UNCHANGED <<store, queue, worker, pendingAdds, now, nextId, idLimit, proc>>

\* ------------------------------------------------- jobService.deleteJob
DeleteJob(c, id) ==
  /\ call[c].pc = "idle"
  /\ IF store[id] = NoJob
       THEN Finish(c, "deleteJob", NoJob, ErrNotFound, NoJob)
       ELSE /\ call' = [call EXCEPT ![c] =
                  [Idle EXCEPT !.op = "deleteJob", !.pc = "remove", !.job = store[id]]]
            /\ reply' = NoReply
  /\ UNCHANGED <<store, queue, worker, pendingAdds, now, nextId, idLimit, proc>>

\* queue.getJob(id) and queueJob.remove(): an entry that is not being
\* processed is removed; no entry, a locked entry or a queue error only
\* log a warning.
\* a deleteJob that gives up when the entry could not be removed
DeleteJobRemoveStrict(c) ==
  /\ call[c].op = "deleteJob" /\ call[c].pc = "remove"
  /\ \/ /\ queue[call[c].job.id] # NoEntry
        /\ queue[call[c].job.id].state # "active"
        /\ queue' = [queue EXCEPT ![call[c].job.id] = NoEntry]
        /\ Continue(c, "delete", call[c].err)
     \/ /\ queue[call[c].job.id] = NoEntry
        /\ UNCHANGED queue
        /\ Continue(c, "delete", call[c].err)
     \/ /\ queue[call[c].job.id] # NoEntry
        /\ UNCHANGED queue
        /\ Finish(c, call[c].op, call[c].job, ErrQueue, NoJob)
  /\ UNCHANGED <<store, worker, pendingAdds, now, nextId, idLimit, proc>>

DeleteJobRemove(c) ==
  /\ call[c].op = "deleteJob" /\ call[c].pc = "remove"
  /\ \/ /\ queue[call[c].job.id] # NoEntry
        /\ queue[call[c].job.id].state # "active"
        /\ queue' = [queue EXCEPT ![call[c].job.id] = NoEntry]
     \/ UNCHANGED queue
  /\ Continue(c, "delete", call[c].err)
  /\ UNCHANGED <<store, worker, pendingAdds, now, nextId, idLimit, proc>>

\* await Job.findByIdAndDelete(id); return job
DeleteJobDelete(c) ==
  /\ call[c].op = "deleteJob" /\ call[c].pc = "delete"
  /\ \/ /\ store' = DeleteDoc(store, call[c].job.id)
        /\ Finish(c, call[c].op, call[c].job, NoError, call[c].job)
     \/ /\ Finish(c, call[c].op, call[c].job, ErrDb, NoJob)
        /\ UNCHANGED store
  /\ UNCHANGED <<queue, worker, pendingAdds, now, nextId, idLimit, proc>>

\* ---------------------------------------- emailWorker and emailProcessor
\* what the queue does with an entry whose processor threw: it waits for its
\* next attempt (backoff) while attempts remain, and is failed after the last
FailEntry(e) ==
  IF e.attemptsMade + 1 < Attempts
  THEN [e EXCEPT !.state = "waiting", !.attemptsMade = e.attemptsMade + 1, !.owner = 0]
  ELSE [e EXCEPT !.state = "failed", !.attemptsMade = e.attemptsMade + 1, !.owner = 0]

\* what the queue does with an entry whose processor returned
CompleteEntry(e) == [e EXCEPT !.state = "completed", !.owner = 0]

\* the run of worker w still holds the entry it was handed
Holds(q, w, id) == q[id] # NoEntry /\ q[id].state = "active" /\ q[id].owner = w

\* The worker takes a waiting entry. Any name but 'sendEmail' throws
\* 'Unknown job type' at once, outside emailProcessor, and nothing is written
\* to the Record Store. Inside emailProcessor job.updateProgress and the
\* timers run first: they pass, or updateProgress throws into the catch.
Deliver(w, id) ==
  /\ worker[w].pc = "idle"
  /\ queue[id] # NoEntry /\ queue[id].state = "waiting"
  /\ \/ /\ queue[id].name # "sendEmail"
        /\ queue' = [queue EXCEPT ![id] = FailEntry(@)]
        /\ UNCHANGED worker
     \/ /\ queue[id].name = "sendEmail"
        /\ queue' = [queue EXCEPT ![id].state = "active", ![id].owner = w]
        /\ \/ worker' = [worker EXCEPT ![w] = [pc |-> "writeCompleted", id |-> queue[id].dataId,
                                             data |-> queue[id].data, err |-> NoError]]
           \/ worker' = [worker EXCEPT ![w] = [pc |-> "writeFailed", id |-> queue[id].dataId,
                                             data |-> queue[id].data, err |-> ErrProgress]]
  /\ reply' = NoReply
  /\ UNCHANGED <<store, call, pendingAdds, now, nextId, idLimit, proc>>

\* try: await Job.findByIdAndUpdate(job.data.id, {status: 'completed',
\* result, completedAt: new Date()}); return: the entry is completed. A
\* failing write throws into the catch.
WriteCompleted(w) ==
  /\ worker[w].pc = "writeCompleted"
  /\ \/ /\ store' = UpdateCompleted(store, worker[w].id, SuccessResult(worker[w].data), now)
        /\ queue' = IF Holds(queue, w, worker[w].id)
                    THEN [queue EXCEPT ![worker[w].id] = CompleteEntry(@)]
                    ELSE queue
        /\ worker' = [worker EXCEPT ![w] = IdleWorker]
     \/ /\ worker' = [worker EXCEPT ![w].pc = "writeFailed", ![w].err = ErrDb]
        /\ UNCHANGED <<store, queue>>
  /\ reply' = NoReply
  /\ UNCHANGED <<call, pendingAdds, now, nextId, idLimit, proc>>

\* catch: await Job.findByIdAndUpdate(job.data.id, {status: 'failed',
\* result: error.message, failedAt: new Date()}); throw error. A failing
\* write throws its own error instead. Either way the processor threw.
WriteFailed(w) ==
  /\ worker[w].pc = "writeFailed"
  /\ \/ store' = UpdateFailed(store, worker[w].id, worker[w].err, now)
     \/ UNCHANGED store
  /\ queue' = IF Holds(queue, w, worker[w].id)
              THEN [queue EXCEPT ![worker[w].id] = FailEntry(@)]
              ELSE queue
  /\ worker' = [worker EXCEPT ![w] = IdleWorker]
  /\ reply' = NoReply
  /\ UNCHANGED <<call, pendingAdds, now, nextId, idLimit, proc>>

\* a run dies without acknowledging; the queue finds the lock of its entry
\* expired and puts the entry back for delivery
WorkerCrash(w) ==
  /\ worker[w].pc # "idle"
  /\ Holds(queue, w, worker[w].id)
  /\ queue[worker[w].id].stalls < MaxStalls
  /\ worker' = [worker EXCEPT ![w] = IdleWorker]
  /\ queue' = [queue EXCEPT ![worker[w].id].state = "waiting", ![worker[w].id].owner = 0,
                            ![worker[w].id].stalls = @ + 1]
  /\ reply' = NoReply
  /\ UNCHANGED <<store, call, pendingAdds, now, nextId, idLimit, proc>>

\* the lock of an entry expires while its run is still going: the entry is
\* put back for delivery and the run goes on without it
Stalled(id) ==
  /\ queue[id] # NoEntry /\ queue[id].state = "active"
  /\ queue[id].stalls < MaxStalls
  /\ queue' = [queue EXCEPT ![id].state = "waiting", ![id].owner = 0,
                            ![id].stalls = @ + 1]
  /\ reply' = NoReply
  /\ UNCHANGED <<store, call, worker, pendingAdds, now, nextId, idLimit, proc>>

\* removeOnComplete / removeOnFail: a finished entry is dropped from the queue
Trim(id) ==
  /\ queue[id] # NoEntry /\ queue[id].state \in {"completed", "failed"}
  /\ queue' = [queue EXCEPT ![id] = NoEntry]
  /\ reply' = NoReply
  /\ UNCHANGED <<store, call, worker, pendingAdds, now, nextId, idLimit, proc>>

\* the clock advances; time is counted from the first Job.create
Tick ==
  /\ nextId > 1
  /\ now < MaxClock
  /\ now' = now + 1
  /\ reply' = NoReply
  /\ UNCHANGED <<store, queue, call, worker, pendingAdds, nextId, idLimit, proc>>

\* the service of src/services/jobService.js with its worker and queue
Next ==
  \/ \E c \in Callers, name \in Names, data \in Payloads : CreateJob(c, name, data)
  \/ \E c \in Callers : CreateJobAdd(c)
  \/ \E c \in Callers : CreateJobCleanup(c)
  \/ \E c \in Callers : CreateJobCleanup2(c)
  \/ \E c \in Callers, id \in Ids : RetryJob(c, id)
  \/ \E c \in Callers : RetryJobAdd(c)
  \/ \E c \in Callers : RetryJobUpdate(c)
  \/ \E c \in Callers, id \in Ids : GetJobById(c, id)
  \/ \E c \in Callers, id \in Ids : DeleteJob(c, id)
  \/ \E c \in Callers : DeleteJobRemove(c)
  \/ \E c \in Callers : DeleteJobDelete(c)
  \/ \E w \in Workers, id \in Ids : Deliver(w, id)
  \/ \E w \in Workers : WriteCompleted(w)
  \/ \E w \in Workers : WriteFailed(w)
  \/ \E w \in Workers : WorkerCrash(w)
  \/ \E id \in Ids : Stalled(id)
  \/ \E id \in Ids : Trim(id)
  \/ Tick

Spec == Init /\ [][Next]_vars

\* createJob with the enqueue raced against a timer (the earlier jobService),
\* with the same worker and queue
NextV1 ==
  \/ \E c \in Callers, name \in Names, data \in Payloads : CreateJobV1(c, name, data)
  \/ \E c \in Callers : CreateJobV1Accepted(c)
  \/ \E c \in Callers : CreateJobV1Rejected(c)
  \/ \E c \in Callers : CreateJobV1TimedOut(c)
  \/ \E c \in Callers : CreateJobV1Cleanup(c)
  \/ \E id \in Ids : LateAddAccepted(id)
  \/ \E id \in Ids : LateAddRejected(id)
  \/ \E w \in Workers, id \in Ids : Deliver(w, id)
  \/ \E w \in Workers : WriteCompleted(w)
  \/ \E w \in Workers : WriteFailed(w)
  \/ \E w \in Workers : WorkerCrash(w)
  \/ \E id \in Ids : Stalled(id)
  \/ \E id \in Ids : Trim(id)
  \/ Tick

SpecV1 == Init /\ [][NextV1]_vars

\* a createJob call under way takes its next step: each race is settled by
\* queue.add or, after 60 s, by the timer, and the event loop then resumes
\* the call
CreateJobV1Step(c) ==
  \/ CreateJobV1Accepted(c)
  \/ CreateJobV1Rejected(c)
  \/ CreateJobV1TimedOut(c)
  \/ CreateJobV1Cleanup(c)

SpecV1Fair == SpecV1 /\ \A c \in Callers : WF_vars(CreateJobV1Step(c))

\* createJob calls alone, one ObjectId for each of them, with the worker
\* taking what they enqueue
NextCreate ==
  \/ \E c \in Callers, name \in Names, data \in Payloads : CreateJob(c, name, data)
  \/ \E c \in Callers : CreateJobAdd(c)
  \/ \E c \in Callers : CreateJobCleanup(c)
  \/ \E c \in Callers : CreateJobCleanup2(c)
  \/ \E w \in Workers, id \in Ids : Deliver(w, id)
  \/ \E w \in Workers : WriteCompleted(w)
  \/ \E w \in Workers : WriteFailed(w)
  \/ \E id \in Ids : Trim(id)

SpecCreate == InitCreate /\ [][NextCreate]_vars

\* ------------------------------------------- jobController, errorHandler
ErrValidation   == "ValidationError"
ErrUnauthorized == "Authentication required"

\* err.statusCode of an error: no error thrown by jobService, the Record
\* Store or the queue carries one (0 stands for undefined)
StatusCodeOf(err) == 0

\* errorHandler: const statusCode = err.statusCode || 500
ErrorStatus(err) == IF StatusCodeOf(err) # 0 THEN StatusCodeOf(err) ELSE 500

\* the HTTP status sent for the outcome r of a request: 401 by
\* authMiddleware, 400 by the controller's validation, 201 / 200 by the
\* controller for a returned call, and next(error) into errorHandler for a
\* thrown one; 0 when nothing was sent
HttpStatus(r) ==
  IF r.op = "none" THEN 0
  ELSE IF r.err = ErrUnauthorized THEN 401
  ELSE IF r.err = ErrValidation THEN 400
  ELSE IF r.err = NoError THEN (IF r.op \in {"createJob", "createJobV1"} THEN 201 ELSE 200)
  ELSE ErrorStatus(r.err)

\* ----------------------------------------------------------- validateJob
\* a field the body does not have, and a body without a data object
Missing == "<undefined>"
NoData  == [missing |-> TRUE]

\* the characters of the texts that requests carry
Chars(s) ==
  CASE s = "sendEmail"   -> <<"s", "e", "n", "d", "E", "m", "a", "i", "l">>
    [] s = "resizeImage" -> <<"r", "e", "s", "i", "z", "e", "I", "m", "a", "g", "e">>
    [] s = "a b"         -> <<"a", " ", "b">>
    [] s = "a@b.com"     -> <<"a", "@", "b", ".", "c", "o", "m">>
    [] s = "c@d.com"     -> <<"c", "@", "d", ".", "c", "o", "m">>
    [] s = "ab.com"      -> <<"a", "b", ".", "c", "o", "m">>
    [] s = "Hi"          -> <<"H", "i">>
    [] s = "Yo"          -> <<"Y", "o">>
    [] s = "<b>"         -> <<"<", "b", ">">>
    [] OTHER             -> <<>>

NameChars == {"a", "b", "c", "d", "e", "g", "i", "l", "m", "n", "o", "r", "s", "z",
              "E", "H", "I", "Y", "_", "-"}

\* Joi.string().required().min(1).max(100).pattern(/^[a-zA-Z0-9_-]+$/)
ValidName(n) ==
  /\ n # Missing
  /\ Len(Chars(n)) \in 1..100
  /\ \A i \in 1..Len(Chars(n)) : Chars(n)[i] \in NameChars

\* Joi.string().email().required().max(254): one '@' with text on both sides
ValidRecipient(r) ==
  /\ r # Missing
  /\ Len(Chars(r)) \in 1..254
  /\ \E i \in 2..(Len(Chars(r)) - 1) :
       /\ Chars(r)[i] = "@"
       /\ \A j \in 1..Len(Chars(r)) : Chars(r)[j] = "@" => j = i
       /\ \A j \in 1..Len(Chars(r)) : Chars(r)[j] # " "

\* Joi.string().required().min(1).max(200).pattern(/^[^<>]*$/)
ValidSubject(t) ==
  /\ t # Missing
  /\ Len(Chars(t)) \in 1..200
  /\ \A i \in 1..Len(Chars(t)) : Chars(t)[i] \notin {"<", ">"}

\* validateJob(req.body).error is undefined
ValidJob(body) ==
  /\ ValidName(body.name)
  /\ body.data # NoData
  /\ ValidRecipient(body.data.recipient)
  /\ ValidSubject(body.data.subject)

NameInputs      == {"sendEmail", "", "a b", Missing}
RecipientInputs == {"a@b.com", "ab.com", Missing}
SubjectInputs   == {"Hi", "", "<b>", Missing}
\* a body validateJob accepts
ValidBody == [name |-> "sendEmail", data |-> [recipient |-> "a@b.com", subject |-> "Hi"]]

\* the request bodies: the valid one, each way of breaking one field of it,
\* and the body of 'should reject invalid job data' (empty name, empty data)
Bodies ==
  {[ValidBody EXCEPT !.name = n] : n \in NameInputs} \cup
  {[ValidBody EXCEPT !.data = NoData]} \cup
  {[ValidBody EXCEPT !.data.recipient = r] : r \in RecipientInputs} \cup
  {[ValidBody EXCEPT !.data.subject = t] : t \in SubjectInputs} \cup
  {[name |-> "", data |-> [recipient |-> Missing, subject |-> Missing]]}

\* the bodies for which validateJob(req.body).error is set
Rejected == {body \in Bodies : ~ValidJob(body)}

\* --------------------------------------------------------- authMiddleware
ErrServerConfig == "Server configuration error"

\* process.env.ADMIN_PASSWORD as the process may have it ("" when not set)
AdminPasswords == {"secret", "abc", ""}

\* what a request carries: nothing, a token (Bearer header or ?token=) that
\* jwt.verify accepts or not, with the ip claim it holds, or Basic credentials
Credentials ==
  {[scheme |-> "none"]} \cup
  [scheme : {"token"}, verifies : BOOLEAN, ip : {"none", "same", "other"}] \cup
  [scheme : {"basic"}, username : {"", "admin", "bob"}, password : {"", "secret", "abc"}]

\* an authMiddleware that lets a request without credentials through
AuthenticateOpen(cred, env) ==
  IF cred.scheme = "token"
    THEN IF ~cred.verifies THEN ErrUnauthorized
         ELSE IF cred.ip = "other" THEN ErrUnauthorized
         ELSE NoError
  ELSE IF cred.scheme = "basic"
    THEN IF cred.username = "" \/ cred.password = "" THEN ErrUnauthorized
         ELSE IF cred.username = "admin" /\ cred.password = env
           THEN IF env = "" \/ Len(env) < 4 THEN ErrServerConfig ELSE NoError
         ELSE ErrUnauthorized
  ELSE NoError

\* authMiddleware: NoError stands for next(), ErrUnauthorized for the 401
\* answers, ErrServerConfig for the 500 answer
Authenticate(cred, env) ==
  IF cred.scheme = "token"
    THEN IF ~cred.verifies THEN ErrUnauthorized
         ELSE IF cred.ip = "other" THEN ErrUnauthorized
         ELSE NoError
  ELSE IF cred.scheme = "basic"
    THEN IF cred.username = "" \/ cred.password = "" THEN ErrUnauthorized
         ELSE IF cred.username = "admin" /\ cred.password = env
           THEN IF env = "" \/ Len(env) < 4 THEN ErrServerConfig ELSE NoError
         ELSE ErrUnauthorized
  ELSE ErrUnauthorized

\* what authMiddleware can make of a request
AuthOutcomes == {Authenticate(cred, env) : cred \in Credentials, env \in AdminPasswords}

\* a request answered before it reaches the service
Respond(c, op, err) ==
  /\ call[c].pc = "idle"
  /\ Finish(c, op, NoJob, err, NoJob)
  /\ UNCHANGED <<store, queue, worker, pendingAdds, now, nextId, idLimit, proc>>

\* ---------------------------------------------------- the /api/jobs routes
\* each handler runs behind router.use(authMiddleware): auth is what the
\* middleware made of the request
\* a createJob handler that validates after calling the service
HttpCreateJobUnchecked(c, auth, body) ==
  IF auth # NoError
    THEN Respond(c, "createJob", auth)
  ELSE IF body.name \in Names /\ body.data \in Payloads
    THEN CreateJob(c, body.name, body.data)
  ELSE IF body.data # NoData /\ body.data.recipient # Missing /\ body.data.subject # Missing
    THEN CreateJob(c, "sendEmail", [recipient |-> "a@b.com", subject |-> "Hi"])
  ELSE Respond(c, "createJob", ErrValidation)

\* POST /jobs: authMiddleware, then validateJob, then jobService.createJob
HttpCreateJob(c, auth, body) ==
  IF auth # NoError
    THEN Respond(c, "createJob", auth)
  ELSE IF body \in Rejected
    THEN Respond(c, "createJob", ErrValidation)
  ELSE CreateJob(c, body.name, body.data)

\* GET /jobs
HttpGetJobs(c, auth) ==
  IF auth # NoError
    THEN Respond(c, "getJobs", auth)
    ELSE GetJobs(c)

\* GET /jobs/:id
HttpGetJobById(c, auth, id) ==
  IF auth # NoError
    THEN Respond(c, "getJobById", auth)
    ELSE GetJobById(c, id)

\* DELETE /jobs/:id
HttpDeleteJob(c, auth, id) ==
  IF auth # NoError
    THEN Respond(c, "deleteJob", auth)
    ELSE DeleteJob(c, id)

\* POST /jobs/:id/retry
HttpRetryJob(c, auth, id) ==
  IF auth # NoError
    THEN Respond(c, "retryJob", auth)
    ELSE RetryJob(c, id)

\* the five routes behind authMiddleware, with the service, worker and queue
NextHttp ==
  \/ \E c \in Callers, auth \in AuthOutcomes, body \in Bodies : HttpCreateJob(c, auth, body)
  \/ \E c \in Callers, auth \in AuthOutcomes : HttpGetJobs(c, auth)
  \/ \E c \in Callers, auth \in AuthOutcomes, id \in Ids : HttpGetJobById(c, auth, id)
  \/ \E c \in Callers, auth \in AuthOutcomes, id \in Ids : HttpDeleteJob(c, auth, id)
  \/ \E c \in Callers, auth \in AuthOutcomes, id \in Ids : HttpRetryJob(c, auth, id)
  \/ \E c \in Callers : CreateJobAdd(c)
  \/ \E c \in Callers : CreateJobCleanup(c)
  \/ \E c \in Callers : CreateJobCleanup2(c)
  \/ \E c \in Callers : RetryJobAdd(c)
  \/ \E c \in Callers : RetryJobUpdate(c)
  \/ \E c \in Callers : DeleteJobRemove(c)
  \/ \E c \in Callers : DeleteJobDelete(c)
  \/ \E w \in Workers, id \in Ids : Deliver(w, id)
  \/ \E w \in Workers : WriteCompleted(w)
  \/ \E w \in Workers : WriteFailed(w)

SpecHttp == Init /\ [][NextHttp]_vars

\* createJob and retryJob for jobs whose data has an id field, with the
\* worker and the queue's retention
NextPayload ==
  \/ \E c \in Callers, data \in IdPayloads : CreateJob(c, "sendEmail", data)
  \/ \E c \in Callers : CreateJobAdd(c)
  \/ \E c \in Callers, id \in Ids : RetryJob(c, id)
  \/ \E c \in Callers : RetryJobAdd(c)
  \/ \E c \in Callers : RetryJobUpdate(c)
  \/ \E w \in Workers, id \in Ids : Deliver(w, id)
  \/ \E w \in Workers : WriteCompleted(w)
  \/ \E w \in Workers : WriteFailed(w)
  \/ \E id \in Ids : Trim(id)

SpecPayload == InitCreate /\ [][NextPayload]_vars

\* createJob with and without a queue to be had, and the worker
NextQueue ==
  \/ \E c \in Callers, name \in Names, data \in Payloads, held \in BOOLEAN, made \in BOOLEAN :
       CreateJobGetQueue(c, name, data, held, made)
  \/ \E c \in Callers : CreateJobAdd(c)
  \/ \E c \in Callers : CreateJobCleanup(c)
  \/ \E c \in Callers : CreateJobCleanup2(c)
  \/ \E w \in Workers, id \in Ids : Deliver(w, id)
  \/ \E w \in Workers : WriteCompleted(w)
  \/ \E w \in Workers : WriteFailed(w)

SpecQueue == Init /\ [][NextQueue]_vars

\* createJob, retryJob and getJobs with the worker, an ObjectId for every
\* caller and the clock running
NextList ==
  \/ \E c \in Callers : CreateJob(c, "sendEmail", [recipient |-> "a@b.com", subject |-> "Hi"])
  \/ \E c \in Callers : CreateJobAdd(c)
  \/ \E c \in Callers : GetJobs(c)
  \/ \E c \in Callers, id \in Ids : RetryJob(c, id)
  \/ \E c \in Callers : RetryJobAdd(c)
  \/ \E c \in Callers : RetryJobUpdate(c)
  \/ \E w \in Workers, id \in Ids : Deliver(w, id)
  \/ \E w \in Workers : WriteCompleted(w)
  \/ \E w \in Workers : WriteFailed(w)
  \/ Tick

SpecList == InitCreate /\ [][NextList]_vars

\* ================================================== config/redis.js
\* redisClient is Null, a client that is not open ("closed") or an open one
RedisMaxRetries == 3     \* maxRetries = 3, the default of connectRedis
RetryLimits == 0..RedisMaxRetries

\* connectRedis(retryCount, maxRetries) from its first line to its first
\* await: with a client open or a connect under way it returns redisClient
\* as it is; otherwise it sets isConnecting, builds a client and calls
\* connect(). made is the number of connect() calls of the call so far.
ConnectRedisEnter(c, retryCount, maxRetries, made) ==
  IF redisClient = "open" \/ isConnecting
    THEN /\ redisCall' = [redisCall EXCEPT ![c] = [pc |-> "idle", retryCount |-> retryCount,
                                                    maxRetries |-> maxRetries, attempts |-> made,
                                                    ret |-> redisClient]]
         /\ UNCHANGED <<redisClient, isConnecting>>
    ELSE /\ isConnecting' = TRUE
         /\ redisClient' = "closed"
         /\ redisCall' = [redisCall EXCEPT ![c] = [pc |-> "connect", retryCount |-> retryCount,
                                                    maxRetries |-> maxRetries, attempts |-> made + 1,
                                                    ret |-> "none"]]

\* a caller calls connectRedis()
ConnectRedis(c, maxRetries) ==
  /\ redisCall[c].pc = "idle"
  /\ ConnectRedisEnter(c, 0, maxRetries, 0)
  /\ UNCHANGED <<lifecycle, dbCall, jobQueue, queueEvents, handles, emailWorker, server>>

\* await redisClient.connect() resolves: the test set/get, whose failure is
\* logged only, then isConnecting = false; return redisClient
ConnectRedisConnected(c) ==
  /\ redisCall[c].pc = "connect"
  /\ redisClient' = "open"
  /\ isConnecting' = FALSE
  /\ redisCall' = [redisCall EXCEPT ![c].pc = "idle", ![c].ret = "open"]
  /\ UNCHANGED <<lifecycle, dbCall, jobQueue, queueEvents, handles, emailWorker, server>>

\* await redisClient.connect() rejects, the catch: the client is quit and
\* redisClient set to null; with retries left the call sleeps, otherwise
\* isConnecting = false; throw error
ConnectRedisFailed(c) ==
  /\ redisCall[c].pc = "connect"
  /\ redisClient' = Null
  /\ IF redisCall[c].retryCount < redisCall[c].maxRetries
       THEN /\ redisCall' = [redisCall EXCEPT ![c].pc = "sleep"]
            /\ UNCHANGED isConnecting
       ELSE /\ redisCall' = [redisCall EXCEPT ![c].pc = "idle", ![c].ret = "throws"]
            /\ isConnecting' = FALSE
  /\ UNCHANGED <<lifecycle, dbCall, jobQueue, queueEvents, handles, emailWorker, server>>

\* after the sleep: return await connectRedis(retryCount + 1, maxRetries)
ConnectRedisRetry(c) ==
  /\ redisCall[c].pc = "sleep"
  /\ ConnectRedisEnter(c, redisCall[c].retryCount + 1, redisCall[c].maxRetries,
                       redisCall[c].attempts)
  /\ UNCHANGED <<lifecycle, dbCall, jobQueue, queueEvents, handles, emailWorker, server>>

\* the connection of an open client is lost for good (reconnectStrategy
\* gives up): isOpen turns false
RedisClientEnds ==
  /\ redisClient = "open"
  /\ redisClient' = "closed"
  /\ UNCHANGED <<lifecycle, isConnecting, redisCall, dbCall, jobQueue, queueEvents, handles,
                 emailWorker, server>>

\* connectRedis() called from start-up and from the controller
NextRedis ==
  \/ \E c \in Callers, maxRetries \in RetryLimits : ConnectRedis(c, maxRetries)
  \/ \E c \in Callers : ConnectRedisConnected(c)
  \/ \E c \in Callers : ConnectRedisFailed(c)
  \/ \E c \in Callers : ConnectRedisRetry(c)
  \/ RedisClientEnds

SpecRedis == Init /\ [][NextRedis]_vars

\* ====================================================== config/db.js
DbMaxRetries == 5     \* maxRetries = 5, the default of connectDB
DbRetryLimits == 0..DbMaxRetries

\* a caller calls connectDB(): the first await mongoose.connect(...)
ConnectDB(c, maxRetries) ==
  /\ dbCall[c].pc = "idle"
  /\ dbCall' = [dbCall EXCEPT ![c] = [pc |-> "connect", retryCount |-> 0,
                                      maxRetries |-> maxRetries, attempts |-> 1,
                                      ret |-> "none"]]
  /\ UNCHANGED <<lifecycle, redisClient, isConnecting, redisCall, jobQueue, queueEvents,
                 handles, emailWorker, server>>

\* mongoose.connect resolves: the listeners are set and the connection is
\* returned
ConnectDBConnected(c) ==
  /\ dbCall[c].pc = "connect"
  /\ dbCall' = [dbCall EXCEPT ![c].pc = "idle", ![c].ret = "connection"]
  /\ UNCHANGED <<lifecycle, redisClient, isConnecting, redisCall, jobQueue, queueEvents,
                 handles, emailWorker, server>>

\* a catch that retries once more than maxRetries
ConnectDBFailedOnceMore(c) ==
  /\ dbCall[c].pc = "connect"
  /\ IF dbCall[c].retryCount <= dbCall[c].maxRetries
       THEN dbCall' = [dbCall EXCEPT ![c].pc = "sleep"]
       ELSE dbCall' = [dbCall EXCEPT ![c].pc = "idle", ![c].ret = "throws"]
  /\ UNCHANGED <<lifecycle, redisClient, isConnecting, redisCall, jobQueue, queueEvents,
                 handles, emailWorker, server>>

\* mongoose.connect rejects, the catch: with retryCount < maxRetries the
\* call sleeps five seconds, otherwise it throws
ConnectDBFailed(c) ==
  /\ dbCall[c].pc = "connect"
  /\ IF dbCall[c].retryCount < dbCall[c].maxRetries
       THEN dbCall' = [dbCall EXCEPT ![c].pc = "sleep"]
       ELSE dbCall' = [dbCall EXCEPT ![c].pc = "idle", ![c].ret = "throws"]
  /\ UNCHANGED <<lifecycle, redisClient, isConnecting, redisCall, jobQueue, queueEvents,
                 handles, emailWorker, server>>

\* after the sleep: return connectDB(retryCount + 1, maxRetries), which
\* calls mongoose.connect again
ConnectDBRetry(c) ==
  /\ dbCall[c].pc = "sleep"
  /\ dbCall' = [dbCall EXCEPT ![c].pc = "connect",
                              ![c].retryCount = dbCall[c].retryCount + 1,
                              ![c].attempts = dbCall[c].attempts + 1]
  /\ UNCHANGED <<lifecycle, redisClient, isConnecting, redisCall, jobQueue, queueEvents,
                 handles, emailWorker, server>>

\* connectDB() called from start-up and from the controller
NextDb ==
  \/ \E c \in Callers, maxRetries \in DbRetryLimits : ConnectDB(c, maxRetries)
  \/ \E c \in Callers : ConnectDBConnected(c)
  \/ \E c \in Callers : ConnectDBFailed(c)
  \/ \E c \in Callers : ConnectDBRetry(c)

\* mongoose.connect settles (serverSelectionTimeoutMS) and the timer of the
\* sleep fires
SpecDb ==
  /\ Init /\ [][NextDb]_vars
  /\ \A c \in Callers : WF_vars(ConnectDBConnected(c) \/ ConnectDBFailed(c))
  /\ \A c \in Callers : WF_vars(ConnectDBRetry(c))

\* ====================================================== jobs/queue.js
\* what the try block of createJobQueue can come to: both objects built, or
\* a throw before the Queue exists, or a throw after it (new QueueEvents)
BuildOutcomes == {"built", "queueThrows", "eventsThrows"}

\* createJobQueue(): the existing queue if there is one; otherwise a Queue
\* and a QueueEvents are built and the Queue returned, or the catch sets
\* jobQueue to null and returns null
CreateJobQueueBody(outcome) ==
  IF jobQueue # NoHandle
    THEN /\ handles' = [handles EXCEPT !.ret = jobQueue]
         /\ UNCHANGED <<jobQueue, queueEvents>>
  ELSE IF outcome = "built"
    THEN /\ handles.built + 2 <= MaxHandles
         /\ jobQueue' = handles.built + 1
         /\ queueEvents' = handles.built + 2
         /\ handles' = [handles EXCEPT !.built = handles.built + 2,
                          !.live = handles.live \cup {[kind |-> "Queue", id |-> handles.built + 1],
                                                       [kind |-> "QueueEvents", id |-> handles.built + 2]},
                          !.ret = handles.built + 1]
  ELSE IF outcome = "eventsThrows"
    THEN /\ handles.built + 1 <= MaxHandles
         /\ jobQueue' = NoHandle
         /\ handles' = [handles EXCEPT !.built = handles.built + 1,
                          !.live = handles.live \cup {[kind |-> "Queue", id |-> handles.built + 1]},
                          !.ret = NoHandle]
         /\ UNCHANGED queueEvents
  ELSE /\ jobQueue' = NoHandle
       /\ handles' = [handles EXCEPT !.ret = NoHandle]
       /\ UNCHANGED queueEvents

CreateJobQueue(outcome) ==
  /\ CreateJobQueueBody(outcome)
  /\ UNCHANGED <<lifecycle, redisClient, isConnecting, redisCall, dbCall, emailWorker, server>>

\* getJobQueue(): return jobQueue
GetJobQueue ==
  /\ handles' = [handles EXCEPT !.ret = jobQueue]
  /\ UNCHANGED <<lifecycle, redisClient, isConnecting, redisCall, dbCall, jobQueue, queueEvents,
                 emailWorker, server>>

\* closeQueue() up to its first await: queueEvents.close() if there are
\* queue events, else jobQueue.close() if there is a queue, else it returns
CloseQueue ==
  /\ handles.closing = "idle"
  /\ handles' = [handles EXCEPT !.closing = IF queueEvents # NoHandle THEN "events"
                                            ELSE IF jobQueue # NoHandle THEN "queue"
                                            ELSE "idle"]
  /\ UNCHANGED <<lifecycle, redisClient, isConnecting, redisCall, dbCall, jobQueue, queueEvents,
                 emailWorker, server>>

\* await queueEvents.close() resolves: queueEvents = null, then the queue
CloseQueueEventsClosed ==
  /\ handles.closing = "events"
  /\ queueEvents' = NoHandle
  /\ handles' = [handles EXCEPT !.live = handles.live \ {[kind |-> "QueueEvents", id |-> queueEvents]},
                                !.closing = IF jobQueue # NoHandle THEN "queue" ELSE "idle"]
  /\ UNCHANGED <<lifecycle, redisClient, isConnecting, redisCall, dbCall, jobQueue,
                 emailWorker, server>>

\* await queueEvents.close() rejects: the catch logs and closeQueue returns
CloseQueueEventsFails ==
  /\ handles.closing = "events"
  /\ handles' = [handles EXCEPT !.closing = "idle"]
  /\ UNCHANGED <<lifecycle, redisClient, isConnecting, redisCall, dbCall, jobQueue, queueEvents,
                 emailWorker, server>>

\* await jobQueue.close() resolves: jobQueue = null
CloseQueueClosed ==
  /\ handles.closing = "queue"
  /\ jobQueue' = NoHandle
  /\ handles' = [handles EXCEPT !.live = handles.live \ {[kind |-> "Queue", id |-> jobQueue]},
                                !.closing = "idle"]
  /\ UNCHANGED <<lifecycle, redisClient, isConnecting, redisCall, dbCall, queueEvents,
                 emailWorker, server>>

\* await jobQueue.close() rejects: the catch logs and closeQueue returns
CloseQueueFails ==
  /\ handles.closing = "queue"
  /\ handles' = [handles EXCEPT !.closing = "idle"]
  /\ UNCHANGED <<lifecycle, redisClient, isConnecting, redisCall, dbCall, jobQueue, queueEvents,
                 emailWorker, server>>

\* any sequence of createJobQueue, getJobQueue and closeQueue calls
NextHandle ==
  \/ \E outcome \in BuildOutcomes : CreateJobQueue(outcome)
  \/ GetJobQueue
  \/ CloseQueue
  \/ CloseQueueEventsClosed
  \/ CloseQueueEventsFails
  \/ CloseQueueClosed
  \/ CloseQueueFails

SpecHandle == Init /\ [][NextHandle]_vars

\* ============================================================ index.js
\* how an awaited withTimeout(promise, ms) settles: the promise resolves, or
\* it rejects, or the timer rejects first
Settlements == {"resolved", "rejected", "timedOut"}

\* createEmailWorker(): the existing worker, or a new Worker on queue
\* 'jobs', or null when building it throws
CreateEmailWorkerBody(built) ==
  IF emailWorker # Null THEN emailWorker
  ELSE IF built THEN "started"
  ELSE Null

\* startServer() up to await withTimeout(connectRedis(), 15000): the checks
\* of the environment, which end the process with code 1
StartServer(envOk) ==
  /\ server.pc = "init"
  /\ server' = IF envOk THEN [server EXCEPT !.pc = "redis"]
               ELSE [server EXCEPT !.pc = "exited", !.exitCode = 1]
  /\ UNCHANGED <<lifecycle, redisClient, isConnecting, redisCall, dbCall, jobQueue, queueEvents,
                 handles, emailWorker>>

\* a start-up that gives up when Redis cannot be reached
StartRedisSettledOrExit(outcome) ==
  /\ server.pc = "redis"
  /\ server' = IF outcome = "resolved"
                 THEN [server EXCEPT !.pc = "mongo", !.redis = outcome, !.redisConnected = TRUE]
                 ELSE [server EXCEPT !.pc = "exited", !.redis = outcome, !.exitCode = 1]
  /\ UNCHANGED <<lifecycle, redisClient, isConnecting, redisCall, dbCall, jobQueue, queueEvents,
                 handles, emailWorker>>

\* the await of connectRedis settles: redisConnected = true, or the catch
\* that logs; then await withTimeout(connectDB(), 10000)
StartRedisSettled(outcome) ==
  /\ server.pc = "redis"
  /\ server' = [server EXCEPT !.pc = "mongo", !.redis = outcome,
                              !.redisConnected = (outcome = "resolved")]
  /\ UNCHANGED <<lifecycle, redisClient, isConnecting, redisCall, dbCall, jobQueue, queueEvents,
                 handles, emailWorker>>

\* the await of connectDB settles. Rejected or timed out: throw mongoError,
\* the outer catch, process.exit(1). Resolved: the rest of startServer runs
\* without another await: with redisConnected the queue is made and, if
\* there is one, the worker, otherwise redisConnected = false; the
\* dashboard with redisConnected and a queue (a throw there is logged);
\* the routes, /health, and app.listen.
StartMongoSettled(outcome, build, workerBuilt, boardBuilt) ==
  /\ server.pc = "mongo"
  /\ IF outcome # "resolved"
       THEN /\ server' = [server EXCEPT !.pc = "exited", !.mongo = outcome, !.exitCode = 1]
            /\ UNCHANGED <<jobQueue, queueEvents, handles, emailWorker>>
     ELSE IF ~server.redisConnected
       THEN /\ server' = [server EXCEPT !.pc = "listening", !.mongo = outcome,
                                        !.routes = TRUE, !.listening = TRUE]
            /\ UNCHANGED <<jobQueue, queueEvents, handles, emailWorker>>
     ELSE /\ CreateJobQueueBody(build)
          /\ emailWorker' = IF handles'.ret # NoHandle THEN CreateEmailWorkerBody(workerBuilt)
                            ELSE emailWorker
          /\ server' = [server EXCEPT !.pc = "listening", !.mongo = outcome,
                                      !.jobQueue = handles'.ret,
                                      !.worker = IF handles'.ret # NoHandle
                                                   THEN CreateEmailWorkerBody(workerBuilt)
                                                   ELSE Null,
                                      !.redisConnected = (handles'.ret # NoHandle),
                                      !.dashboard = (handles'.ret # NoHandle /\ boardBuilt),
                                      !.routes = TRUE, !.listening = TRUE]
  /\ UNCHANGED <<lifecycle, redisClient, isConnecting, redisCall, dbCall>>

\* GET /health: status
HealthStatus == IF server.redisConnected THEN "OK" ELSE "Degraded (Redis unavailable)"

\* POST /api/jobs once the routes are there, createJob from its first line:
\* getJobQueue(), createJobQueue() if that gave none, the throw if there is
\* still none, then Job.create
CreateJobLazy(c, name, data, build) ==
  /\ server.routes
  /\ IF jobQueue # NoHandle
       THEN /\ CreateJobWrite(c, name, data)
            /\ UNCHANGED <<jobQueue, queueEvents, handles>>
       ELSE /\ CreateJobQueueBody(build)
            /\ IF build = "built"
                 THEN CreateJobWrite(c, name, data)
                 ELSE /\ call[c].pc = "idle"
                      /\ Finish(c, "createJob", NoJob, ErrQueueNotInit, NoJob)
                      /\ UNCHANGED <<store, queue, worker, pendingAdds, now, nextId, idLimit>>
  /\ UNCHANGED <<redisClient, isConnecting, redisCall, dbCall, emailWorker, server>>

\* the worker built by createEmailWorker takes an entry
WorkerDeliver(w, id) ==
  /\ emailWorker = "started"
  /\ Deliver(w, id)

\* start-up, then createJob requests and the worker if there is one
NextStart ==
  \/ \E envOk \in BOOLEAN : StartServer(envOk)
  \/ \E outcome \in Settlements : StartRedisSettled(outcome)
  \/ \E outcome \in Settlements, build \in BuildOutcomes, workerBuilt \in BOOLEAN,
        boardBuilt \in BOOLEAN : StartMongoSettled(outcome, build, workerBuilt, boardBuilt)
  \/ \E c \in Callers, build \in BuildOutcomes :
       CreateJobLazy(c, "sendEmail", [recipient |-> "a@b.com", subject |-> "Hi"], build)
  \/ \E c \in Callers : CreateJobAdd(c)
  \/ \E c \in Callers : CreateJobCleanup(c)
  \/ \E c \in Callers : CreateJobCleanup2(c)
  \/ \E w \in Workers, id \in Ids : WorkerDeliver(w, id)
  \/ \E w \in Workers : WriteCompleted(w)
  \/ \E w \in Workers : WriteFailed(w)

SpecStart == Init /\ [][NextStart]_vars

\* ================================================================ claims
Terminal == {"completed", "failed"}

\* C1: once createJob has written the Job record and then returned an error
\* (the enqueue failed), the Record Store holds no record with that id.
C1_CompensatingDelete ==
  (reply.op = "createJob" /\ reply.err # NoError /\ reply.id # 0)
    => store[reply.id] = NoJob

\* C2: when createJob returns successfully, the Record Store holds the record
\* of the returned id in status active and the Work Queue holds the accepted
\* entry keyed by that id.
C2_CreateLeavesRecordAndEntry ==
  (reply.op = "createJob" /\ reply.err = NoError)
    => /\ store[reply.id] # NoJob
       /\ store[reply.id].status = "active"
       /\ queue[reply.id] # NoEntry
       /\ queue[reply.id].dataId = reply.id

\* C3: Create leaves the record and its accepted entry together or neither;
\* in particular no entry is accepted into the Work Queue for an id whose
\* record is gone (an abandoned queue.add settling after the compensating
\* delete): every acceptance leaves an entry whose record exists.
C3_DualWrite ==
  [][\A id \in Ids : (queue[id] = NoEntry /\ queue'[id] # NoEntry)
                        => store'[id] # NoJob]_vars

C6_RetryReturnsActive ==
  (reply.op = "retryJob" /\ reply.err = NoError)
    => /\ reply.ret # NoJob
       /\ reply.ret.status = "active"
       /\ reply.ret.result = NullResult
       /\ reply.ret.failedAt = NullDate

\* C6 as amended: the Job a successful retryJob returns is the document read
\* before the update: status failed, with its error result and failedAt.
C6_RetryReturnsReadDocument ==
  (reply.op = "retryJob" /\ reply.err = NoError)
    => /\ reply.ret # NoJob
       /\ reply.ret.id = reply.id
       /\ reply.ret.status = "failed"
       /\ reply.ret.result # NullResult /\ reply.ret.result.kind = "error"
       /\ reply.ret.failedAt # NullDate

\* C6 witness: retryJob has just returned the failed document while the
\* stored record is active
C6_Witness ==
  /\ reply.op = "retryJob" /\ reply.err = NoError
  /\ reply.ret # NoJob /\ reply.ret.status = "failed"
  /\ store[reply.id] # NoJob /\ store[reply.id].status = "active"

\* C7: every Job record has a status in {active, completed, failed} and never
\* has completedAt and failedAt both set.
C7_StateClosure ==
  \A id \in Ids : store[id] # NoJob =>
    /\ store[id].status \in {"active", "completed", "failed"}
    /\ ~(store[id].completedAt # NullDate /\ store[id].failedAt # NullDate)

\* C8: a record is created active, and every write that changes a record
\* takes its status along active->completed, active->failed or failed->active.
C8_Transitions ==
  [][\A id \in Ids :
       /\ (store[id] = NoJob /\ store'[id] # NoJob) => store'[id].status = "active"
       /\ (store[id] # NoJob /\ store'[id] # NoJob /\ store'[id] # store[id])
            => <<store[id].status, store'[id].status>> \in
                 {<<"active", "completed">>, <<"active", "failed">>, <<"failed", "active">>}
    ]_vars

\* C9: once a record is completed, no step changes its status, result or
\* completedAt; it can only be removed.
C9_CompletedImmutable ==
  [][\A id \in Ids :
       (store[id] # NoJob /\ store[id].status = "completed" /\ store'[id] # NoJob)
         => /\ store'[id].status = "completed"
            /\ store'[id].result = store[id].result
            /\ store'[id].completedAt = store[id].completedAt
    ]_vars

\* C10: a worker write that applies to a terminal record the outcome it
\* already has (same status, same result) leaves the record as it was: the
\* terminal timestamp is not set a second time.
C10_IdempotentTerminalWrite ==
  [][\A id \in Ids :
       (/\ store[id] # NoJob /\ store'[id] # NoJob
        /\ store[id].status \in Terminal
        /\ store'[id].status = store[id].status
        /\ store'[id].result = store[id].result)
         => store'[id] = store[id]
    ]_vars

C12_WorkerFailure ==
  [][\A w \in Workers :
       (WriteFailed(w) /\ store[worker[w].id] # NoJob)
         => /\ store'[worker[w].id].status = "failed"
            /\ store'[worker[w].id].result = ErrorResult(worker[w].err)
            /\ store'[worker[w].id].failedAt # NullDate
    ]_vars

\* C13: once the worker has taken an entry whose name is not 'sendEmail', the
\* record with that id, if there is one, is failed with the 'Unknown job type'
\* result and failedAt set.
C13_UnknownJobType ==
  \A id \in Ids :
    (/\ queue[id] # NoEntry /\ queue[id].name # "sendEmail"
     /\ queue[id].attemptsMade > 0 /\ store[id] # NoJob)
      => /\ store[id].status = "failed"
         /\ store[id].result = ErrorResult(ErrUnknownType)
         /\ store[id].failedAt # NullDate

C16_ConcurrentCreate ==
  /\ [](\A c1, c2 \in Callers :
          (c1 # c2 /\ call[c1].job # NoJob /\ call[c2].job # NoJob)
            => call[c1].job.id # call[c2].job.id)
  /\ [](\A c \in Callers : call[c].job # NoJob => call[c].job.id < nextId)
  /\ [][\A c \in Callers :
          /\ (\E name \in Names, data \in Payloads : CreateJob(c, name, data))
               /\ call'[c].pc = "add"
                => /\ store[call'[c].job.id] = NoJob
                   /\ store' = [store EXCEPT ![call'[c].job.id] = call'[c].job]
                   /\ queue' = queue
          /\ (CreateJobAdd(c) /\ reply'.op = "createJob" /\ reply'.err = NoError)
                => /\ reply'.ret = call[c].job /\ reply'.id = call[c].job.id
                   /\ store' = store /\ store[call[c].job.id] = call[c].job
                   /\ queue[call[c].job.id] = NoEntry
                   /\ queue' = [queue EXCEPT ![call[c].job.id] =
                                  NewEntry(call[c].job.name, call[c].job.data, call[c].job.id)]
     ]_vars

\* C16 witness: the call that wrote the first record has just returned while
\* a call that started after it had already enqueued: two records and two
\* waiting entries, one per id
C16_Witness ==
  /\ reply.op = "createJob" /\ reply.err = NoError /\ reply.id = 1
  /\ \A id \in 1..2 :
       /\ store[id] # NoJob /\ store[id].id = id /\ store[id].status = "active"
       /\ queue[id] # NoEntry /\ queue[id].dataId = id /\ queue[id].state = "waiting"

\* C17: every activation has its one entry: when the queue.add of a retryJob
\* call has been accepted, the Work Queue holds under the Job's id an entry
\* that is pending or in flight.
C17_OneEntryPerActivation ==
  [][\A c \in Callers :
       (RetryJobAdd(c) /\ call'[c].pc = "update")
         => /\ queue'[call[c].job.id] # NoEntry
            /\ queue'[call[c].job.id].state \in {"waiting", "active"}
    ]_vars

\* C18: a Job made active by a successful retryJob eventually becomes
\* completed or failed unless it is deleted. Only a worker run writes those
\* statuses, so for a finite run: when retryJob has returned and left the
\* record active, and no call and no run is under way, the Work Queue holds
\* an entry for it that is still to be run.
C18_ActiveJobHasWork ==
  (/\ reply.op = "retryJob" /\ reply.err = NoError
   /\ store[reply.id] # NoJob /\ store[reply.id].status = "active"
   /\ \A c \in Callers : call[c] = Idle
   /\ \A w \in Workers : worker[w] = IdleWorker)
    => /\ queue[reply.id] # NoEntry
       /\ queue[reply.id].state \in {"waiting", "active"}

C20_QueueFailureReported ==
  (reply.op = "createJob" /\ reply.err # NoError /\ reply.id # 0)
    => reply.err = ErrFailedToQueue

\* C21: a worker iteration that fails (the queue counts a failed attempt of
\* the entry) leaves the record with the entry's id, if there is one, in
\* status failed, and the worker free for the next entry.
C21_FailureConverted ==
  [][\A id \in Ids :
       (/\ queue[id] # NoEntry /\ queue'[id] # NoEntry
        /\ queue'[id].attemptsMade > queue[id].attemptsMade
        /\ store'[id] # NoJob)
         => /\ store'[id].status = "failed"
            /\ \A w \in Workers : worker[w].id = id => worker'[w] = IdleWorker
    ]_vars

\* C22: getJobById, deleteJob and retryJob for an id without a record are
\* answered 404, and a getJobById that returns the Job is answered 200.
C22_NotFoundIs404 ==
  /\ (reply.op \in {"getJobById", "deleteJob", "retryJob"} /\ reply.err = ErrNotFound)
        => HttpStatus(reply) = 404
  /\ (reply.op = "getJobById" /\ reply.err = NoError)
        => HttpStatus(reply) = 200 /\ reply.ret # NoJob

\* C23: a retryJob turned away because the Job is not failed is answered 400.
C23_StateConflictIs400 ==
  (reply.op = "retryJob" /\ reply.err = ErrNotFailed) => HttpStatus(reply) = 400

\* C24: a POST /jobs whose body validateJob rejects is answered 400 and
\* createJob is not called: no record is written, no ObjectId is used, no
\* entry is enqueued and the caller is not left inside the service.
C24_InvalidBodyIs400 ==
  [][\A c \in Callers, body \in Rejected :
       HttpCreateJob(c, NoError, body)
         => /\ reply'.op = "createJob" /\ reply'.err = ErrValidation
            /\ HttpStatus(reply') = 400
            /\ store' = store /\ queue' = queue /\ nextId' = nextId
            /\ call'[c] = Idle
    ]_vars

\* C24 witness: a body has just been answered 400 while the store holds a
\* record created by an earlier request
C24_Witness ==
  /\ reply.op = "createJob" /\ reply.err = ErrValidation
  /\ HttpStatus(reply) = 400
  /\ \E id \in Ids : store[id] # NoJob

\* credentials authMiddleware is written to accept: a token that jwt.verify
\* accepts and whose ip claim, if any, is the request's, or the admin name
\* with the configured password
ValidCredentials(cred, env) ==
  \/ cred.scheme = "token" /\ cred.verifies /\ cred.ip \in {"none", "same"}
  \/ cred.scheme = "basic" /\ cred.username = "admin"
       /\ cred.password # "" /\ cred.password = env

\* C25: authMiddleware answers 401 to every request without valid
\* credentials, and each of the five job routes answers such a request with
\* that 401 without calling the service: store and queue are unchanged and no
\* caller enters the service.
C25_UnauthenticatedIs401 ==
  /\ \A cred \in Credentials, env \in AdminPasswords :
       ~ValidCredentials(cred, env) => Authenticate(cred, env) = ErrUnauthorized
  /\ [][\A c \in Callers :
          (\/ \E body \in Bodies : HttpCreateJob(c, ErrUnauthorized, body)
           \/ HttpGetJobs(c, ErrUnauthorized)
           \/ \E id \in Ids : \/ HttpGetJobById(c, ErrUnauthorized, id)
                              \/ HttpDeleteJob(c, ErrUnauthorized, id)
                              \/ HttpRetryJob(c, ErrUnauthorized, id))
            => /\ reply'.err = ErrUnauthorized
               /\ HttpStatus(reply') = 401
               /\ store' = store /\ queue' = queue /\ nextId' = nextId
               /\ call' = call /\ call[c] = Idle
       ]_vars

\* C25 witness: a request has just been answered 401 while the store holds a
\* record and the queue its entry
C25_Witness ==
  /\ reply.err = ErrUnauthorized /\ HttpStatus(reply) = 401
  /\ reply.op \in {"createJob", "getJobs", "getJobById", "deleteJob", "retryJob"}
  /\ \E id \in Ids : store[id] # NoJob /\ queue[id] # NoEntry

C27_NoQueueNoWrite ==
  [][\A c \in Callers, name \in Names, data \in Payloads :
       CreateJobGetQueue(c, name, data, FALSE, FALSE)
         => /\ reply'.op = "createJob" /\ reply'.err = ErrQueueNotInit
            /\ reply'.id = 0
            /\ store' = store /\ nextId' = nextId
            /\ queue' = queue /\ pendingAdds' = pendingAdds
            /\ call'[c] = Idle
    ]_vars

\* C27 witness: createJob has just failed for want of a queue, at a time
\* when ObjectIds were still to be had, and the store is empty
C27_Witness ==
  /\ reply.op = "createJob" /\ reply.err = ErrQueueNotInit
  /\ nextId <= idLimit
  /\ \A i \in Ids : store[i] = NoJob /\ queue[i] = NoEntry

\* C28: an entry counts at most 3 failed attempts; an entry that has counted
\* its third is not handed to the worker again; with the third failed
\* attempt the Job of the entry, if there is one, is failed; and from then on
\* only the update of a retryJob takes the Job out of failed.
C28_BoundedAttempts ==
  /\ [](\A id \in Ids : queue[id] # NoEntry => queue[id].attemptsMade <= Attempts)
  /\ [][\A id \in Ids :
          (queue[id] # NoEntry /\ queue[id].attemptsMade = Attempts)
            => queue'[id] \in {queue[id], NoEntry}]_vars
  /\ [][\A id \in Ids :
          (/\ queue[id] # NoEntry /\ queue'[id] # NoEntry
           /\ queue[id].attemptsMade < Attempts
           /\ queue'[id].attemptsMade = Attempts
           /\ store'[id] # NoJob)
            => store'[id].status = "failed"]_vars
  /\ [][\A id \in Ids :
          (/\ queue[id] # NoEntry /\ queue[id].attemptsMade = Attempts
           /\ store[id] # NoJob /\ store[id].status = "failed"
           /\ store'[id] # NoJob /\ store'[id].status # "failed")
            => \E c \in Callers : RetryJobUpdate(c) /\ call[c].job.id = id]_vars

\* C29: a record comes into the store only by createJob's Job.create, under
\* a fresh id, and leaves it only by deleteJob's or createJob's
\* findByIdAndDelete; a worker write for an id that has no record changes
\* nothing in the store; and an id that has lost its record never has one
\* again.
C29_DeletedStaysDeleted ==
  /\ [][\A id \in Ids : (store[id] = NoJob /\ store'[id] # NoJob)
          => /\ id = nextId /\ nextId' = nextId + 1
             /\ \E c \in Callers, name \in Names, data \in Payloads : CreateJob(c, name, data)
       ]_vars
  /\ [][\A id \in Ids : (store[id] # NoJob /\ store'[id] = NoJob)
          => \E c \in Callers :
               /\ call[c].job # NoJob /\ call[c].job.id = id
               /\ DeleteJobDelete(c) \/ CreateJobCleanup(c) \/ CreateJobCleanup2(c)
       ]_vars
  /\ [][\A w \in Workers :
          ((WriteCompleted(w) \/ WriteFailed(w)) /\ store[worker[w].id] = NoJob)
            => store' = store
       ]_vars
  /\ [][\A id \in Ids : (id < nextId /\ store[id] = NoJob) => store'[id] = NoJob]_vars

\* C29 witness: the record is gone, no time has passed and no call is going
\* on or has just returned, and the worker has completed the entry: its
\* success write came after the delete and found no document
C29_Witness ==
  \E id \in Ids :
    /\ id < nextId /\ store[id] = NoJob
    /\ queue[id] # NoEntry /\ queue[id].state = "completed"
    /\ reply = NoReply /\ now = 0
    /\ \A c \in Callers : call[c] = Idle
    /\ \A w \in Workers : worker[w] = IdleWorker

\* C30: a record gets status active only when createJob writes it new or
\* when a retryJob updates a record that is failed; in particular no step
\* takes a record from completed to active, and none but retryJob's update
\* from failed to active.
C30_OnlyRetryReactivates ==
  [][\A id \in Ids :
       (/\ store'[id] # NoJob /\ store'[id].status = "active"
        /\ (store[id] = NoJob \/ store[id].status # "active"))
         => \/ /\ store[id] = NoJob
               /\ \E c \in Callers, name \in Names, data \in Payloads : CreateJob(c, name, data)
            \/ /\ store[id] # NoJob /\ store[id].status = "failed"
               /\ \E c \in Callers : RetryJobUpdate(c) /\ call[c].job.id = id
    ]_vars

\* C31: when the entry of an id has finished (completed, or failed after its
\* last attempt), no run is going on and no call is under way, the record of
\* that id shows the outcome of the entry's last run: completed with the
\* summary of the mail, or failed with the error message.
C31_LastOutcome ==
  \A id \in Ids :
    (/\ queue[id] # NoEntry /\ queue[id].state \in {"completed", "failed"}
     /\ store[id] # NoJob
     /\ \A w \in Workers : worker[w] = IdleWorker
     /\ \A c \in Callers : call[c] = Idle)
      => IF queue[id].state = "completed"
           THEN /\ store[id].status = "completed"
                /\ store[id].result = SuccessResult(queue[id].data)
           ELSE /\ store[id].status = "failed"
                /\ store[id].result.kind = "error"

\* C32: every entry carries as payload id its own key, which is the id of the
\* Job it was added for, also when the Job's data has an id field of its own;
\* the worker is handed that id, and its write changes no other record.
C32_WorkerUpdatesOwnJob ==
  /\ [](\A id \in Ids : queue[id] # NoEntry => queue[id].dataId = id)
  /\ [][\A c \in Callers :
          ((CreateJobAdd(c) \/ RetryJobAdd(c)) /\ queue' # queue)
            => /\ queue'[call[c].job.id] # NoEntry
               /\ queue'[call[c].job.id].dataId = call[c].job.id
               /\ \A id \in Ids : id # call[c].job.id => queue'[id] = queue[id]
       ]_vars
  /\ [][\A w \in Workers, id \in Ids : Deliver(w, id) => worker'[w].id \in {0, id}]_vars
  /\ [][\A w \in Workers :
          (WriteCompleted(w) \/ WriteFailed(w))
            => \A id \in Ids : id # worker[w].id => store'[id] = store[id]
       ]_vars

\* C32 witness: two jobs, the data of the first naming the id of the second;
\* the worker has completed the entry of the first, and the first record,
\* not the second, is completed
C32_Witness ==
  /\ store[1] # NoJob /\ store[2] # NoJob
  /\ store[1].data.id = 2
  /\ queue[1] # NoEntry /\ queue[1].state = "completed"
  /\ store[1].status = "completed" /\ store[2].status = "active"

\* C33: when a retryJob comes to its update after the worker has completed
\* the entry that a retryJob added, the record stays completed. The entry
\* is known to be one a retryJob added because the call read the record as
\* failed while the entry has completed at its first run without ever
\* stalling: no run of this entry can have written that failure. No other
\* call is under way.
C33_RetryKeepsWorkerOutcome ==
  [][\A c \in Callers :
       (/\ RetryJobUpdate(c)
        /\ \A d \in Callers \ {c} : call[d] = Idle
        /\ call[c].job.status = "failed"
        /\ queue[call[c].job.id] # NoEntry
        /\ queue[call[c].job.id].state = "completed"
        /\ queue[call[c].job.id].attemptsMade = 0
        /\ queue[call[c].job.id].stalls = 0
        /\ store[call[c].job.id] # NoJob
        /\ store[call[c].job.id].status = "completed")
         => store'[call[c].job.id].status = "completed"
    ]_vars

\* C34: a step of retryJob that ends the call with an error of the queue or
\* of the store leaves the store as it was, and if the record is (still)
\* failed, the queue holds no new entry under its id, that is, none that
\* waits or runs without a failed attempt or a stall behind it: such an
\* entry cannot be the one whose run wrote the failure.
C34_RetryAllOrNothing ==
  [][\A c \in Callers :
       (/\ RetryJobAdd(c) \/ RetryJobUpdate(c)
        /\ reply'.op = "retryJob" /\ reply'.err \in {ErrQueue, ErrDb})
         => /\ store' = store
            /\ (store[call[c].job.id] # NoJob /\ store[call[c].job.id].status = "failed")
                 => ~(/\ queue'[call[c].job.id] # NoEntry
                      /\ queue'[call[c].job.id].state \in {"waiting", "active"}
                      /\ queue'[call[c].job.id].attemptsMade = 0
                      /\ queue'[call[c].job.id].stalls = 0)
    ]_vars

\* C38: a connectRedis call that has made a connection attempt ends only by
\* returning an open client or by throwing, and it throws only after
\* maxRetries + 1 attempts; after a failed attempt with retries left the
\* call makes another connect(); and when the call ends with no other call
\* running, isConnecting is false.
C38_ConnectRedisRetries ==
  [][\A c \in Callers :
       /\ redisCall[c].pc = "sleep" /\ redisCall'[c] # redisCall[c]
            => redisCall'[c].attempts = redisCall[c].attempts + 1
       /\ redisCall[c].pc # "idle" /\ redisCall'[c].pc = "idle"
            => /\ redisCall'[c].ret \in {"open", "throws"}
               /\ redisCall'[c].ret = "throws"
                    => redisCall'[c].attempts = redisCall'[c].maxRetries + 1
               /\ (\A d \in Callers \ {c} : redisCall[d].pc = "idle") => ~isConnecting']_vars

\* C39: every connectDB call ends; each failed attempt but the last is
\* followed by one more attempt; the call throws only at the failure of
\* attempt maxRetries + 1; and when an attempt succeeds the call returns the
\* connection at that step, with no attempt added.
C39_ConnectDBTerminates ==
  /\ \A c \in Callers : dbCall[c].pc # "idle" ~> dbCall[c].pc = "idle"
  /\ [][\A c \in Callers :
          /\ dbCall'[c].attempts <= dbCall'[c].maxRetries + 1
          /\ dbCall[c].pc = "connect" /\ dbCall'[c].pc = "sleep"
               => dbCall[c].attempts <= dbCall[c].maxRetries
          /\ dbCall[c].pc = "sleep" /\ dbCall'[c] # dbCall[c]
               => dbCall'[c].pc = "connect" /\ dbCall'[c].attempts = dbCall[c].attempts + 1
          /\ dbCall[c].pc = "connect" /\ dbCall'[c].pc = "idle"
               => /\ dbCall'[c].attempts = dbCall[c].attempts
                  /\ dbCall'[c].ret \in {"connection", "throws"}
                  /\ dbCall'[c].ret = "throws"
                       => dbCall'[c].attempts = dbCall'[c].maxRetries + 1
          /\ dbCall[c].pc = "idle" /\ dbCall'[c].pc = "idle"
               => dbCall'[c] = dbCall[c]]_vars

\* one default call has thrown after six attempts, another has returned the
\* connection at its second attempt
C39_Witness ==
  /\ dbCall[1] = [pc |-> "idle", retryCount |-> DbMaxRetries, maxRetries |-> DbMaxRetries,
                  attempts |-> DbMaxRetries + 1, ret |-> "throws"]
  /\ dbCall[2] = [pc |-> "idle", retryCount |-> 1, maxRetries |-> DbMaxRetries,
                  attempts |-> 2, ret |-> "connection"]

\* C37: createJobQueue called with a queue at hand returns that queue and
\* builds nothing; and at the step at which closeQueue returns, jobQueue is
\* null, so that getJobQueue returns null from then on and the next
\* createJobQueue builds a new pair.
C37_QueueHandleSingleton ==
  [][/\ jobQueue # NoHandle /\ (\E outcome \in BuildOutcomes : CreateJobQueue(outcome))
          => handles'.ret = jobQueue /\ handles'.built = handles.built /\ jobQueue' = jobQueue
     /\ handles.closing # "idle" /\ handles'.closing = "idle"
          => jobQueue' = NoHandle]_vars

\* C35: whenever the process holds a queue handle that start-up did not
\* make (start-up skipped the queue, and a createJob made it afterwards), so
\* that createJob can put entries into the queue 'jobs', an email worker has
\* been started.
C35_ConsumerExists ==
  server.listening /\ server.jobQueue = NoHandle /\ jobQueue # NoHandle
    => emailWorker = "started"

====
